---- MODULE Spec2Model ----
(***************************************************************************)
(* A model of pygame's SDL2 event module (src/src/event.c): the user       *)
(* object registry, the event type translation, the per-type block flags   *)
(* and the queue operations built on the native event queue.               *)
(***************************************************************************)
EXTENDS Integers, Sequences, FiniteSets, TLC

(***************************************************************************)
(* Bounds of the model.                                                    *)
(***************************************************************************)
\* number of heap addresses PyMem_New can hand out for UserEventObject nodes
MaxNodes == 3
\* capacity of the native event queue (SDL_PushEvent fails beyond it)
MaxQueue == 2
\* number of attribute dictionaries the application holds
NumDicts == 2
\* longest type sequence handed to set_allowed, set_blocked and get_blocked
MaxTypes == 2
MaxPostAddr == 2

(***************************************************************************)
(* Machine integers.                                                       *)
(***************************************************************************)
\* A 32-bit value (Uint32, SDL_EventType, int) is held as its bit pattern read
\* in two's complement, so (SDL_EventType)-1 = 0xFFFFFFFF is held as -1. The
\* values of the model stay far from 2^31, so + and - on them are the wrapping
\* 32-bit + and -; comparisons of unsigned values go through UintGeq/UintLeq.
TwoTo16 == 65536
TwoTo8 == 256

\* a >= b and a <= b for two Uint32 values
UintGeq(a, b) == IF (a >= 0) = (b >= 0) THEN a >= b ELSE a < 0
UintLeq(a, b) == UintGeq(b, a)

\* the (Uint8) casts of set_allowed, set_blocked and get_blocked
ToUint8(n) == n % TwoTo8

(***************************************************************************)
(* The pygame (logical) event types, pygame.h: the SDL 1.2 numbering.      *)
(***************************************************************************)
PGE_NOEVENT == 0
PGE_ACTIVEEVENT == 1
PGE_KEYDOWN == 2
PGE_KEYUP == 3
PGE_MOUSEMOTION == 4
PGE_MOUSEBUTTONDOWN == 5
PGE_MOUSEBUTTONUP == 6
PGE_JOYAXISMOTION == 7
PGE_JOYBALLMOTION == 8
PGE_JOYHATMOTION == 9
PGE_JOYBUTTONDOWN == 10
PGE_JOYBUTTONUP == 11
PGE_QUIT == 12
PGE_SYSWMEVENT == 13
PGE_VIDEORESIZE == 16
PGE_VIDEOEXPOSE == 17
PGE_OTHEREVENT == 18
PGE_USEREVENT == 24
PGE_NUMEVENTS == 32

(***************************************************************************)
(* The native (SDL2) event types and window sub-events, SDL_events.h and   *)
(* SDL_video.h.                                                            *)
(***************************************************************************)
SDL_QUIT == 256
SDL_WINDOWEVENT == 512
SDL_SYSWMEVENT == 513
SDL_KEYDOWN == 768
SDL_KEYUP == 769
SDL_TEXTINPUT == 771
SDL_MOUSEMOTION == 1024
SDL_MOUSEBUTTONDOWN == 1025
SDL_MOUSEBUTTONUP == 1026
SDL_JOYAXISMOTION == 1536
SDL_JOYBALLMOTION == 1537
SDL_JOYHATMOTION == 1538
SDL_JOYBUTTONDOWN == 1539
SDL_JOYBUTTONUP == 1540

SDL_WINDOWEVENT_EXPOSED == 3
SDL_WINDOWEVENT_MOVED == 4
SDL_WINDOWEVENT_RESIZED == 5
SDL_WINDOWEVENT_MINIMIZED == 7
SDL_WINDOWEVENT_RESTORED == 9
SDL_WINDOWEVENT_ENTER == 10
SDL_WINDOWEVENT_LEAVE == 11
SDL_WINDOWEVENT_FOCUS_GAINED == 12
SDL_WINDOWEVENT_FOCUS_LOST == 13

\* #define PGE_NON_SDL_EVENT ((SDL_EventType)-1)
PGE_NON_SDL_EVENT == -1

\* #define PGE_ALLEVENTS ((Uint32)-1): a mask is modelled as the set of its
\* set bit positions
PGE_ALLEVENTS == 0 .. 31

\* #define PGE_EVENTMASK(T) (1 << (T))
PGE_EVENTMASK(T) == {T}

NULL == 0

VARIABLES
    user_event_objects,  \* head of the list of UserEventObject nodes
    heap,                \* the UserEventObject nodes, by address
    queue,               \* the native event queue, oldest first
    disabled,            \* native type codes whose SDL_EventState is SDL_IGNORE
    repeat,              \* static KeyRepeat repeat
    fault,               \* TRUE once the process has run into undefined behaviour
    last,                \* the last call made: its name, arguments and result
    reg_of,              \* handle -> the payload registered under it and not
                         \* yet retrieved (NULL: none)
    last_named,          \* type -> how the last in-range set_allowed/set_blocked
                         \* call that named it left it ("none": never named)
    bad_call_seen,       \* TRUE once a block call was given an out-of-range type
    wait                 \* the thread inside pygame_wait: where it is (pc),
                         \* whether it holds the GIL, and its locals r, e, rcode

vars == <<user_event_objects, heap, queue, disabled, repeat, fault, last, reg_of,
          last_named, bad_call_seen, wait>>

\* the bookkeeping of the block calls
blockHistory == <<last_named, bad_call_seen>>

Addr == 1 .. MaxNodes
Dicts == 1 .. NumDicts

(***************************************************************************)
(* TypeTranslator: sdl_to_pg, pg_type_to_sdl, pg_to_sdl.                   *)
(***************************************************************************)
\* SDL_RegisterEvents(numevents): the first code of the block it reserves
SDL_USEREVENT == 32768
SDL_RegisterEvents(numevents) == SDL_USEREVENT

\* static SDL_EventType first_user_event = PGE_NON_SDL_EVENT, and the same for
\* last_user_event: the values module initialisation starts from
static_user_event == PGE_NON_SDL_EVENT

\* MODINIT_DEFINE (event): the block is registered only
\* if (first_user_event != PGE_NON_SDL_EVENT)
modinit_numevents == PGE_NUMEVENTS - PGE_USEREVENT + 1

first_user_event ==
    IF static_user_event # PGE_NON_SDL_EVENT
    THEN SDL_RegisterEvents(modinit_numevents)
    ELSE static_user_event

last_user_event ==
    IF static_user_event # PGE_NON_SDL_EVENT /\ first_user_event # PGE_NON_SDL_EVENT
    THEN first_user_event + modinit_numevents - 1
    ELSE static_user_event

\* the window sub-events sdl_to_pg names
ActiveSubEvents ==
    {SDL_WINDOWEVENT_ENTER, SDL_WINDOWEVENT_LEAVE, SDL_WINDOWEVENT_FOCUS_GAINED,
     SDL_WINDOWEVENT_FOCUS_LOST, SDL_WINDOWEVENT_MINIMIZED, SDL_WINDOWEVENT_RESTORED}

\* sdl_to_pg: the pygame type of native event e
sdl_to_pg(e) ==
    CASE e.type = SDL_WINDOWEVENT ->
            (CASE e.event \in ActiveSubEvents -> PGE_ACTIVEEVENT
               [] e.event = SDL_WINDOWEVENT_RESIZED -> PGE_VIDEORESIZE
               [] e.event = SDL_WINDOWEVENT_EXPOSED -> PGE_VIDEOEXPOSE
               [] OTHER -> PGE_OTHEREVENT)
      [] e.type = SDL_KEYDOWN -> PGE_KEYDOWN
      [] e.type = SDL_KEYUP -> PGE_KEYUP
      [] e.type = SDL_MOUSEMOTION -> PGE_MOUSEMOTION
      [] e.type = SDL_MOUSEBUTTONDOWN -> PGE_MOUSEBUTTONDOWN
      [] e.type = SDL_MOUSEBUTTONUP -> PGE_MOUSEBUTTONUP
      [] e.type = SDL_JOYAXISMOTION -> PGE_JOYAXISMOTION
      [] e.type = SDL_JOYBALLMOTION -> PGE_JOYBALLMOTION
      [] e.type = SDL_JOYHATMOTION -> PGE_JOYHATMOTION
      [] e.type = SDL_JOYBUTTONDOWN -> PGE_JOYBUTTONDOWN
      [] e.type = SDL_JOYBUTTONUP -> PGE_JOYBUTTONUP
      [] e.type = SDL_QUIT -> PGE_QUIT
      [] e.type = SDL_SYSWMEVENT -> PGE_SYSWMEVENT
      [] OTHER ->
            IF UintGeq(e.type, first_user_event) /\ UintLeq(e.type, last_user_event)
            THEN e.type - first_user_event + PGE_USEREVENT
            ELSE PGE_OTHEREVENT

\* pg_type_to_sdl: the native type of pygame type pge_type
pg_type_to_sdl(pge_type) ==
    CASE pge_type \in {PGE_ACTIVEEVENT, PGE_VIDEOEXPOSE, PGE_VIDEORESIZE} ->
            SDL_WINDOWEVENT
      [] pge_type = PGE_KEYDOWN -> SDL_KEYDOWN
      [] pge_type = PGE_KEYUP -> SDL_KEYUP
      [] pge_type = PGE_MOUSEMOTION -> SDL_MOUSEMOTION
      [] pge_type = PGE_MOUSEBUTTONDOWN -> SDL_MOUSEBUTTONDOWN
      [] pge_type = PGE_MOUSEBUTTONUP -> SDL_MOUSEBUTTONUP
      [] pge_type = PGE_JOYAXISMOTION -> SDL_JOYAXISMOTION
      [] pge_type = PGE_JOYBALLMOTION -> SDL_JOYBALLMOTION
      [] pge_type = PGE_JOYHATMOTION -> SDL_JOYHATMOTION
      [] pge_type = PGE_JOYBUTTONDOWN -> SDL_JOYBUTTONDOWN
      [] pge_type = PGE_JOYBUTTONUP -> SDL_JOYBUTTONUP
      [] pge_type = PGE_QUIT -> SDL_QUIT
      [] pge_type = PGE_SYSWMEVENT -> SDL_SYSWMEVENT
      [] OTHER ->
            IF pge_type >= PGE_USEREVENT /\ pge_type < PGE_NUMEVENTS
            THEN pge_type - PGE_USEREVENT + first_user_event
            ELSE PGE_NON_SDL_EVENT

\* A Py_ssize_t (64 bits) is held as [hi, lo], its high and low 32-bit
\* halves, each read in two's complement.
Ssize(hi, lo) == [hi |-> hi, lo |-> lo]
SsizeOfInt(n) == Ssize(IF n < 0 THEN -1 ELSE 0, n)

\* the attribute "sdl2_type" of the application's dictionaries: dictionary 1
\* has none, dictionary 2 holds the code of a native text-input event,
\* dictionary 3 a value that is no number, dictionary 4 a negative integer,
\* dictionary 5 a number that is no integer (a float), dictionary 6 the
\* integer 2^32, dictionary 7 the integer -2^32; any further dictionary holds
\* a value that is no number. numeric is PyNumber_Check, index is whether
\* the value converts to an integer (PyNumber_Index succeeds).
DictSdl2Type(d) ==
    CASE d = 1 -> [present |-> FALSE, numeric |-> FALSE, index |-> FALSE,
                   value |-> SsizeOfInt(0)]
      [] d = 2 -> [present |-> TRUE, numeric |-> TRUE, index |-> TRUE,
                   value |-> SsizeOfInt(SDL_TEXTINPUT)]
      [] d = 4 -> [present |-> TRUE, numeric |-> TRUE, index |-> TRUE,
                   value |-> SsizeOfInt(-5)]
      [] d = 5 -> [present |-> TRUE, numeric |-> TRUE, index |-> FALSE,
                   value |-> SsizeOfInt(0)]
      [] d = 6 -> [present |-> TRUE, numeric |-> TRUE, index |-> TRUE,
                   value |-> Ssize(1, 0)]
      [] d = 7 -> [present |-> TRUE, numeric |-> TRUE, index |-> TRUE,
                   value |-> Ssize(-1, 0)]
      [] OTHER -> [present |-> TRUE, numeric |-> FALSE, index |-> FALSE,
                   value |-> SsizeOfInt(0)]

\* PyNumber_AsSsize_t (sdl_type, NULL): the value, or -1 with the error
\* indicator set when the number has no integer value
PyNumber_AsSsize_t(sdl_type) ==
    IF sdl_type.index
    THEN [c |-> sdl_type.value, err |-> FALSE]
    ELSE [c |-> SsizeOfInt(-1), err |-> TRUE]

\* c > last_user_event: the Uint32 u is widened to 64 bits
SsizeGtUint(c, u) == c.hi > 0 \/ (c.hi = 0 /\ ~UintLeq(c.lo, u))

\* c < INT_MIN
SsizeLtIntMin(c) == c.hi < -1 \/ (c.hi = -1 /\ c.lo >= 0)

\* get_sdl_event_code of an event whose dictionary is d; (int)c is the low
\* half of c
get_sdl_event_code(d) ==
    LET sdl_type == DictSdl2Type(d)
        c == PyNumber_AsSsize_t(sdl_type).c IN
    IF ~sdl_type.present \/ ~sdl_type.numeric
       \/ SsizeGtUint(c, last_user_event) \/ SsizeLtIntMin(c)
    THEN last_user_event + 1
    ELSE c.lo

\* whether get_sdl_event_code returns with the error indicator set
get_sdl_event_code_raised(d) ==
    LET sdl_type == DictSdl2Type(d) IN
    sdl_type.present /\ sdl_type.numeric /\ PyNumber_AsSsize_t(sdl_type).err

\* pg_to_sdl of the event e = [type, dict]
pg_to_sdl(e) ==
    IF e.type = PGE_OTHEREVENT
    THEN get_sdl_event_code(e.dict)
    ELSE pg_type_to_sdl(e.type)

(***************************************************************************)
(* The native layer: the per-type event state and the queue.               *)
(***************************************************************************)
\* the entry of the disabled-events table SDL_EventState uses for a type: its
\* two low bytes
StateKey(type) == type % TwoTo16

\* SDL_EventState (type, SDL_QUERY) == SDL_IGNORE
SDL_EventIgnored(dis, type) == StateKey(type) \in dis

\* the table after SDL_EventState (type, SDL_IGNORE) and (type, SDL_ENABLE)
SDL_EventStateIgnore(dis, type) == dis \cup {StateKey(type)}
SDL_EventStateEnable(dis, type) == dis \ {StateKey(type)}

\* the queue after SDL_EventState (type, SDL_IGNORE): a type that was enabled
\* has its pending events flushed
SDL_FlushOnIgnore(q, dis, type) ==
    IF SDL_EventIgnored(dis, type) THEN q
    ELSE LET Keep(ev) == ev.type # type IN SelectSeq(q, Keep)

(***************************************************************************)
(* UserObjectRegistry: the singly linked list of UserEventObject nodes.    *)
(***************************************************************************)
\* typedef struct UserEventObject { next; object; }; a free address holds none
FreeNode == [alloc |-> FALSE, next |-> NULL, object |-> NULL]

\* the record a call leaves in `last` (pos: the list position of the handle
\* of a getobject, the queue position of the event of a peek, the number of
\* native events a get removed; seen: the native events a poll or wait took
\* from the queue, dropped ones included; vals: the numbers a call returned,
\* or firsttime and timestamp of KeyRepeat as a poll found them)
NoCall ==
    [op |-> "init", kind |-> "none", types |-> <<>>, h |-> NULL, obj |-> NULL,
     ret |-> "none", events |-> <<>>, released |-> <<>>, pos |-> 0, expect |-> NULL,
     pushed |-> 0, seen |-> <<>>, vals |-> <<>>]

\* the thread that calls pygame_wait while it is outside the call: r, e and
\* rcode are the locals of Py_WaitEvent and pygame_wait
NotWaiting ==
    [pc |-> "idle", gil |-> FALSE,
     r |-> [delay |-> 0, interval |-> 0, firsttime |-> 0, timestamp |-> 0],
     e |-> [type |-> 0, event |-> 0, repeat |-> FALSE, timestamp |-> 0,
            magic |-> FALSE, data2 |-> NULL, orig |-> NULL],
     rcode |-> -1]

\* the addresses of the list that starts at node a, in list order
RECURSIVE ListFrom(_, _)
ListFrom(hp, a) ==
    IF a = NULL THEN <<>> ELSE <<a>> \o ListFrom(hp, hp[a].next)

RegistryList == ListFrom(heap, user_event_objects)

SeqSet(s) == {s[i] : i \in 1 .. Len(s)}

\* the position of x in sequence s, 0 when x is not in it
IndexOf(s, x) ==
    IF x \in SeqSet(s) THEN CHOOSE i \in 1 .. Len(s) : s[i] = x ELSE 0

\* user_event_addobject with PyMem_New returning address a (a # NULL)
user_event_addobject(head, hp, obj, a) ==
    [head |-> a,
     heap |-> [hp EXCEPT ![a] = [alloc |-> TRUE, next |-> head, object |-> obj]]]

\* while (hunt && hunt->next != userobj) hunt = hunt->next;
RECURSIVE HuntFor(_, _, _)
HuntFor(hp, hunt, userobj) ==
    IF hunt # NULL /\ hp[hunt].next # userobj
    THEN HuntFor(hp, hp[hunt].next, userobj)
    ELSE hunt

\* user_event_getobject without the relinking hunt->next = userobj->next
user_event_getobject_norelink(head, hp, userobj) ==
    IF head = NULL
    THEN [obj |-> NULL, head |-> head, heap |-> hp, hunt |-> NULL, nullread |-> FALSE]
    ELSE IF head = userobj
    THEN [obj |-> hp[userobj].object, head |-> hp[userobj].next,
          heap |-> [hp EXCEPT ![userobj] = FreeNode], hunt |-> NULL,
          nullread |-> FALSE]
    ELSE LET hunt == HuntFor(hp, head, userobj) IN
         IF hunt = NULL
         THEN [obj |-> NULL, head |-> head, heap |-> hp, hunt |-> NULL,
               nullread |-> FALSE]
         ELSE IF userobj = NULL
         THEN [obj |-> NULL, head |-> head, heap |-> hp, hunt |-> hunt,
               nullread |-> TRUE]
         ELSE [obj |-> hp[userobj].object, head |-> head,
               heap |-> [hp EXCEPT ![userobj] = FreeNode],
               hunt |-> hunt, nullread |-> FALSE]

\* user_event_getobject: the object returned (NULL: none), the list after the
\* call, and whether the call read userobj->next through a NULL userobj
user_event_getobject(head, hp, userobj) ==
    IF head = NULL
    THEN [obj |-> NULL, head |-> head, heap |-> hp, hunt |-> NULL, nullread |-> FALSE]
    ELSE IF head = userobj
    THEN [obj |-> hp[userobj].object, head |-> hp[userobj].next,
          heap |-> [hp EXCEPT ![userobj] = FreeNode], hunt |-> NULL,
          nullread |-> FALSE]
    ELSE LET hunt == HuntFor(hp, head, userobj) IN
         IF hunt = NULL
         THEN [obj |-> NULL, head |-> head, heap |-> hp, hunt |-> NULL,
               nullread |-> FALSE]
         ELSE IF userobj = NULL
         THEN [obj |-> NULL, head |-> head, heap |-> hp, hunt |-> hunt,
               nullread |-> TRUE]
         ELSE [obj |-> hp[userobj].object, head |-> head,
               heap |-> [hp EXCEPT ![hunt].next = hp[userobj].next,
                                   ![userobj] = FreeNode],
               hunt |-> hunt, nullread |-> FALSE]

\* a walk that advances past the first node before it releases anything
CleanupWalk_skipfirst(hp, hunt) ==
    IF hunt = NULL THEN <<>>
    ELSE LET rest == ListFrom(hp, hp[hunt].next) IN
         [i \in 1 .. Len(rest) |-> hp[rest[i]].object]

\* the walk of user_event_cleanup: the objects it Py_DECREFs, in order
RECURSIVE CleanupWalk(_, _)
CleanupWalk(hp, hunt) ==
    IF hunt = NULL THEN <<>>
    ELSE <<hp[hunt].object>> \o CleanupWalk(hp, hp[hunt].next)

\* the heap after user_event_cleanup has PyMem_Del'ed every node of the list
user_event_cleanup_heap(head, hp) ==
    [a \in Addr |-> IF a \in SeqSet(ListFrom(hp, head)) THEN FreeNode ELSE hp[a]]

FreeAddrs == {a \in Addr : ~heap[a].alloc}

(***************************************************************************)
(* The registry operations, called directly.                               *)
(***************************************************************************)
\* register(obj): PyMem_New fails (a = NULL) or returns a free address
Register(obj) ==
    /\ ~fault
    /\ ~wait.gil
    /\ \E a \in FreeAddrs \cup {NULL} :
        IF a = NULL
        THEN /\ last' = [NoCall EXCEPT !.op = "addobject", !.obj = obj,
                                       !.ret = "nomem"]
             /\ UNCHANGED <<user_event_objects, heap, reg_of>>
        ELSE LET r == user_event_addobject(user_event_objects, heap, obj, a) IN
             /\ user_event_objects' = r.head
             /\ heap' = r.heap
             /\ reg_of' = [reg_of EXCEPT ![a] = obj]
             /\ last' = [NoCall EXCEPT !.op = "addobject", !.obj = obj, !.h = a,
                                       !.ret = "ok"]
    /\ UNCHANGED <<queue, disabled, repeat, fault, blockHistory>>
    /\ UNCHANGED wait

\* retrieve(userobj) for any pointer value: a registered handle, a stale one,
\* one never handed out, or NULL
Retrieve(userobj) ==
    /\ ~fault
    /\ ~wait.gil
    /\ LET r == user_event_getobject(user_event_objects, heap, userobj)
           call == [NoCall EXCEPT !.op = "getobject", !.h = userobj,
                       !.pos = IndexOf(RegistryList, userobj),
                       !.expect = IF userobj \in Addr THEN reg_of[userobj] ELSE NULL]
       IN
       IF r.nullread
       THEN \* hunt->next = userobj->next reads through the NULL pointer: the
            \* process is killed, or the read yields some pointer and object
            /\ fault' = TRUE
            /\ UNCHANGED <<user_event_objects, reg_of>>
            /\ \/ /\ last' = [call EXCEPT !.ret = "crash"]
                  /\ UNCHANGED heap
               \/ \E n \in Addr \cup {NULL}, o \in Dicts \cup {NULL} :
                     /\ heap' = [heap EXCEPT ![r.hunt].next = n]
                     /\ last' = [call EXCEPT !.obj = o,
                            !.ret = IF o = NULL THEN "absent" ELSE "object"]
       ELSE /\ user_event_objects' = r.head
            /\ heap' = r.heap
            /\ reg_of' = [a \in Addr |-> IF a = userobj THEN NULL ELSE reg_of[a]]
            /\ last' = [call EXCEPT !.obj = r.obj,
                            !.ret = IF r.obj = NULL THEN "absent" ELSE "object"]
            /\ UNCHANGED fault
    /\ UNCHANGED <<queue, disabled, repeat, blockHistory>>
    /\ UNCHANGED wait

\* teardownAll(): user_event_cleanup, registered with PyGame_RegisterQuit
Cleanup ==
    /\ ~fault
    /\ ~wait.gil
    /\ last' = [NoCall EXCEPT !.op = "cleanup",
                    !.released = IF user_event_objects # NULL
                                 THEN CleanupWalk(heap, user_event_objects)
                                 ELSE <<>>]
    /\ heap' = IF user_event_objects # NULL
               THEN user_event_cleanup_heap(user_event_objects, heap)
               ELSE heap
    /\ user_event_objects' = NULL
    /\ reg_of' = [a \in Addr |-> NULL]
    /\ UNCHANGED <<queue, disabled, repeat, fault, blockHistory>>
    /\ UNCHANGED wait

RegInit ==
    /\ user_event_objects = NULL
    /\ heap = [a \in Addr |-> FreeNode]
    /\ queue = <<>>
    /\ disabled = {}
    /\ repeat = [delay |-> 0, interval |-> 0, firsttime |-> 0, timestamp |-> 0]
    /\ fault = FALSE
    /\ last = NoCall
    /\ reg_of = [a \in Addr |-> NULL]
    /\ last_named = [t \in 0 .. PGE_NUMEVENTS - 1 |-> "none"]
    /\ bad_call_seen = FALSE
    /\ wait = NotWaiting

RegNext ==
    \/ \E obj \in Dicts : Register(obj)
    \/ \E userobj \in Addr \cup {NULL} : Retrieve(userobj)
    \/ Cleanup

RegSpec == RegInit /\ [][RegNext]_vars

(***************************************************************************)
(* set_allowed, set_blocked, get_blocked.  The argument of a call is       *)
(* [kind, types]: kind "none" for None, "int" for one number (types is     *)
(* <<val>>), "seq" for a sequence of numbers.  The model is of a process   *)
(* whose video subsystem is initialised, so VIDEO_INIT_CHECK passes.       *)
(***************************************************************************)
CheckEventInRange(evt) == evt >= 0 /\ evt < PGE_NUMEVENTS

\* the for loop of set_blocked (ignore) and of set_allowed (~ignore) over a
\* type sequence: it stops with an error at the first type out of range
RECURSIVE EventStateLoop(_, _, _, _)
EventStateLoop(types, dis, q, ignore) ==
    IF types = <<>> THEN [err |-> FALSE, disabled |-> dis, queue |-> q]
    ELSE LET val == Head(types) IN
         IF ~CheckEventInRange(val)
         THEN [err |-> TRUE, disabled |-> dis, queue |-> q]
         ELSE IF ignore
         THEN EventStateLoop(Tail(types), SDL_EventStateIgnore(dis, ToUint8(val)),
                             SDL_FlushOnIgnore(q, dis, ToUint8(val)), ignore)
         ELSE EventStateLoop(Tail(types), SDL_EventStateEnable(dis, ToUint8(val)),
                             q, ignore)

\* set_blocked with the bodies of set_allowed: SDL_ENABLE for the types given
set_blocked_enabling(arg, dis, q) ==
    IF arg.kind = "none"
    THEN [err |-> FALSE, disabled |-> SDL_EventStateIgnore(dis, ToUint8(255)),
          queue |-> SDL_FlushOnIgnore(q, dis, ToUint8(255))]
    ELSE EventStateLoop(arg.types, dis, q, FALSE)

\* set_blocked: the error flag, the event states and the queue after the call
set_blocked_result(arg, dis, q) ==
    IF arg.kind = "none"
    THEN [err |-> FALSE, disabled |-> SDL_EventStateIgnore(dis, ToUint8(255)),
          queue |-> SDL_FlushOnIgnore(q, dis, ToUint8(255))]
    ELSE EventStateLoop(arg.types, dis, q, TRUE)

\* set_allowed: None is handled with SDL_IGNORE, as in set_blocked
set_allowed_result(arg, dis, q) ==
    IF arg.kind = "none"
    THEN [err |-> FALSE, disabled |-> SDL_EventStateIgnore(dis, ToUint8(255)),
          queue |-> SDL_FlushOnIgnore(q, dis, ToUint8(255))]
    ELSE EventStateLoop(arg.types, dis, q, FALSE)

\* the for loop of get_blocked: isblocked |= ..., an error at the first type
\* out of range
RECURSIVE BlockedLoop(_, _, _)
BlockedLoop(types, dis, isblocked) ==
    IF types = <<>> THEN [err |-> FALSE, isblocked |-> isblocked]
    ELSE LET val == Head(types) IN
         IF ~CheckEventInRange(val)
         THEN [err |-> TRUE, isblocked |-> isblocked]
         ELSE BlockedLoop(Tail(types), dis,
                          isblocked \/ SDL_EventIgnored(dis, ToUint8(val)))

get_blocked_result(arg, dis) == BlockedLoop(arg.types, dis, FALSE)

\* the ghost record of which types an in-range call named, and how
NameTypes(named, types, how) ==
    [t \in DOMAIN named |-> IF t \in SeqSet(types) THEN how ELSE named[t]]

AllInRange(types) == \A i \in 1 .. Len(types) : CheckEventInRange(types[i])

BlockCall(op, arg, r) ==
    [NoCall EXCEPT !.op = op, !.kind = arg.kind, !.types = arg.types,
                   !.ret = IF r.err THEN "ValueError" ELSE "ok"]

set_blocked(arg) ==
    /\ ~fault
    /\ ~wait.gil
    /\ LET r == set_blocked_result(arg, disabled, queue) IN
       /\ disabled' = r.disabled
       /\ queue' = r.queue
       /\ last' = BlockCall("set_blocked", arg, r)
       /\ last_named' = IF arg.kind # "none" /\ AllInRange(arg.types)
                        THEN NameTypes(last_named, arg.types, "blocked")
                        ELSE last_named
       /\ bad_call_seen' = (bad_call_seen \/ ~AllInRange(arg.types))
    /\ UNCHANGED <<user_event_objects, heap, reg_of, repeat, fault>>
    /\ UNCHANGED wait

set_allowed(arg) ==
    /\ ~fault
    /\ ~wait.gil
    /\ LET r == set_allowed_result(arg, disabled, queue) IN
       /\ disabled' = r.disabled
       /\ queue' = r.queue
       /\ last' = BlockCall("set_allowed", arg, r)
       /\ last_named' = IF arg.kind # "none" /\ AllInRange(arg.types)
                        THEN NameTypes(last_named, arg.types, "allowed")
                        ELSE last_named
       /\ bad_call_seen' = (bad_call_seen \/ ~AllInRange(arg.types))
    /\ UNCHANGED <<user_event_objects, heap, reg_of, repeat, fault>>
    /\ UNCHANGED wait

\* get_blocked takes a number or a sequence (None is a TypeError, not modelled)
get_blocked(arg) ==
    /\ ~fault
    /\ ~wait.gil
    /\ arg.kind # "none"
    /\ LET r == get_blocked_result(arg, disabled) IN
       last' = [NoCall EXCEPT !.op = "get_blocked", !.kind = arg.kind,
                   !.types = arg.types,
                   !.ret = IF r.err THEN "ValueError"
                           ELSE IF r.isblocked THEN "true" ELSE "false"]
    /\ UNCHANGED <<user_event_objects, heap, reg_of, fault, queue, disabled,
                   repeat, blockHistory>>
    /\ UNCHANGED wait

\* the types the type sequences are made of: two in range (a key type, a
\* type of the user band) and the first one out of range
SeqTypes == {PGE_KEYDOWN, PGE_USEREVENT + 3, PGE_NUMEVENTS}

\* the types given as one number: those, the last type in range and a
\* negative number
ArgTypes == SeqTypes \cup {PGE_NUMEVENTS - 1, -1}

\* the sequences over S of length 1 .. n
SeqsUpTo(S, n) == UNION {[1 .. k -> S] : k \in 1 .. n}

BlockArgs ==
    {[kind |-> "none", types |-> <<>>]}
    \cup {[kind |-> "int", types |-> <<t>>] : t \in ArgTypes}
    \cup {[kind |-> "seq", types |-> ts] : ts \in SeqsUpTo(SeqTypes, MaxTypes)}

BlockNext ==
    \/ \E arg \in BlockArgs : set_blocked(arg)
    \/ \E arg \in BlockArgs : set_allowed(arg)
    \/ \E arg \in BlockArgs : get_blocked(arg)

BlockSpec == RegInit /\ [][BlockNext]_vars

(***************************************************************************)
(* The native events and the queue.  An SDL_Event is held as [type, event  *)
(* (the window sub-event), repeat and timestamp (of a key event), magic    *)
(* (user.code == USEROBJECT_CHECK1 && user.data1 == USEROBJECT_CHECK2),    *)
(* data2 (user.data2)], with orig, the dictionary event_post pushed it     *)
(* with (NULL: the event is not one event_post pushed), as a history       *)
(* field.                                                                  *)
(***************************************************************************)
NativeEvent(type, sub, rep, ts) ==
    [type |-> type, event |-> sub, repeat |-> rep, timestamp |-> ts,
     magic |-> FALSE, data2 |-> NULL, orig |-> NULL]

\* what the platform delivers in the model: a fresh key press, a window
\* resize, a window expose and a text input (a type sdl_to_pg does not name)
EnvEvents ==
    {NativeEvent(SDL_KEYDOWN, 0, FALSE, 0),
     NativeEvent(SDL_WINDOWEVENT, SDL_WINDOWEVENT_RESIZED, FALSE, 0),
     NativeEvent(SDL_WINDOWEVENT, SDL_WINDOWEVENT_EXPOSED, FALSE, 0),
     NativeEvent(SDL_TEXTINPUT, 0, FALSE, 0)}

\* what one SDL_PumpEvents can bring: nothing or one event
Arrivals == {<<>>} \cup {<<ev>> : ev \in EnvEvents}

\* SDL_PumpEvents: an arrival is queued unless its type is disabled or the
\* queue is full
SDL_PumpEvents(q, dis, arrivals) ==
    LET Enabled(ev) == ~SDL_EventIgnored(dis, ev.type)
        new == SelectSeq(arrivals, Enabled)
    IN IF Len(q) + Len(new) <= MaxQueue THEN q \o new ELSE q

\* SDL_PushEvent: 1 and the event queued, or -1 when the queue is full (0, the
\* answer of an event filter, does not occur: the module installs none)
SDL_PushEvent(q, ev) ==
    IF Len(q) < MaxQueue THEN [rc |-> 1, queue |-> Append(q, ev)]
    ELSE [rc |-> -1, queue |-> q]

RemoveAt(q, i) == SubSeq(q, 1, i - 1) \o SubSeq(q, i + 1, Len(q))

\* a < b for two Uint32 values: int - Uint32 and the comparison with an int
\* are done in unsigned arithmetic
UintLess(a, b) == ~UintGeq(a, b)

\* the loop body with the interval test e->key.timestamp - repeat.timestamp
\* <= repeat.interval, which drops a repeat that comes exactly at the interval
KeyRepeatBody_strict(e, r) ==
    LET repeat_enabled == r.delay > 0 \/ r.interval > 0 IN
    IF e.type # SDL_KEYDOWN THEN [skip |-> FALSE, repeat |-> r]
    ELSE IF e.repeat
    THEN IF ~repeat_enabled THEN [skip |-> TRUE, repeat |-> r]
         ELSE IF r.firsttime # 0
         THEN IF UintLess(r.timestamp - e.timestamp, r.delay)
              THEN [skip |-> TRUE, repeat |-> r]
              ELSE [skip |-> FALSE,
                    repeat |-> [r EXCEPT !.firsttime = 0, !.timestamp = e.timestamp]]
         ELSE IF UintLeq(e.timestamp - r.timestamp, r.interval)
              THEN [skip |-> TRUE, repeat |-> r]
              ELSE [skip |-> FALSE, repeat |-> [r EXCEPT !.timestamp = e.timestamp]]
    ELSE IF repeat_enabled
    THEN [skip |-> FALSE,
          repeat |-> [r EXCEPT !.firsttime = 1, !.timestamp = e.timestamp]]
    ELSE [skip |-> FALSE, repeat |-> r]

\* the body of the loops of Py_PollEvent and Py_WaitEvent for event e and
\* KeyRepeat r: whether the loop continues (the event is dropped), and the
\* KeyRepeat after it
KeyRepeatBody(e, r) ==
    LET repeat_enabled == r.delay > 0 \/ r.interval > 0 IN
    IF e.type # SDL_KEYDOWN THEN [skip |-> FALSE, repeat |-> r]
    ELSE IF e.repeat
    THEN IF ~repeat_enabled THEN [skip |-> TRUE, repeat |-> r]
         ELSE IF r.firsttime # 0
         THEN IF UintLess(r.timestamp - e.timestamp, r.delay)
              THEN [skip |-> TRUE, repeat |-> r]
              ELSE [skip |-> FALSE,
                    repeat |-> [r EXCEPT !.firsttime = 0, !.timestamp = e.timestamp]]
         ELSE IF UintLess(e.timestamp - r.timestamp, r.interval)
              THEN [skip |-> TRUE, repeat |-> r]
              ELSE [skip |-> FALSE, repeat |-> [r EXCEPT !.timestamp = e.timestamp]]
    ELSE IF repeat_enabled
    THEN [skip |-> FALSE,
          repeat |-> [r EXCEPT !.firsttime = 1, !.timestamp = e.timestamp]]
    ELSE [skip |-> FALSE, repeat |-> r]

\* a Py_PollEvent that returns at the first event it drops
Py_PollEvent_once(q, r) ==
    IF q = <<>>
    THEN [rcode |-> 0, event |-> NativeEvent(0, 0, FALSE, 0), queue |-> q, repeat |-> r]
    ELSE LET b == KeyRepeatBody(Head(q), r) IN
         IF b.skip
         THEN [rcode |-> 0, event |-> NativeEvent(0, 0, FALSE, 0), queue |-> Tail(q),
               repeat |-> r]
         ELSE [rcode |-> 1, event |-> Head(q), queue |-> Tail(q), repeat |-> b.repeat]

\* Py_PollEvent: the loop over SDL_PollEvent with the key repeat filter; the
\* result is rcode, the event returned, the queue and KeyRepeat after it
RECURSIVE Py_PollEvent(_, _)
Py_PollEvent(q, r) ==
    IF q = <<>>
    THEN [rcode |-> 0, event |-> NativeEvent(0, 0, FALSE, 0), queue |-> q, repeat |-> r]
    ELSE LET b == KeyRepeatBody(Head(q), r) IN
         IF b.skip
         THEN Py_PollEvent(Tail(q), r)
         ELSE [rcode |-> 1, event |-> Head(q), queue |-> Tail(q), repeat |-> b.repeat]

\* the position in q of the first event of native type sdl_type, 0 if none:
\* SDL_PeepEvents (events, 1, action, sdl_type, sdl_type)
FirstOfType(q, sdl_type) ==
    IF \E i \in 1 .. Len(q) : q[i].type = sdl_type
    THEN CHOOSE i \in 1 .. Len(q) :
            /\ q[i].type = sdl_type
            /\ \A j \in 1 .. i - 1 : q[j].type # sdl_type
    ELSE 0

\* the for loop of PG_PeepEvents (&event, 1, action, mask), from pygame type
\* `type` on: the position in q of the event it hands out, 0 when its tally is 0
RECURSIVE PeepFrom(_, _, _)
PeepFrom(type, q, mask) ==
    IF type = PGE_NUMEVENTS THEN 0
    ELSE LET sdl_type == pg_type_to_sdl(type)
             n == IF type \in mask /\ sdl_type # PGE_NON_SDL_EVENT
                  THEN FirstOfType(q, sdl_type)
                  ELSE 0
         IN IF n # 0 THEN n ELSE PeepFrom(type + 1, q, mask)

PG_PeepEvents(q, mask) == PeepFrom(1, q, mask)

\* the mask event_get, event_clear and event_peek build from their argument
RECURSIVE MaskOfTypes(_)
MaskOfTypes(types) ==
    IF types = <<>> THEN {}
    ELSE PGE_EVENTMASK(Head(types)) \cup MaskOfTypes(Tail(types))

MaskOf(arg) == IF arg.kind = "none" THEN PGE_ALLEVENTS ELSE MaskOfTypes(arg.types)

(***************************************************************************)
(* EventRecordCodec: dict_from_event, PyEvent_New, PyEvent_FillUserEvent.  *)
(***************************************************************************)
\* the keys dict_from_event puts into the dictionary it builds for event ev
GenericKeys(ev) ==
    LET pge_type == sdl_to_pg(ev) IN
    {"sdl2_type"}
    \cup (IF ev.type = SDL_WINDOWEVENT THEN {"window_id"} ELSE {})
    \cup (CASE pge_type = PGE_ACTIVEEVENT -> {"gain", "state"}
            [] pge_type = PGE_KEYDOWN -> {"unicode", "key", "mod", "scancode"}
            [] pge_type = PGE_KEYUP -> {"key", "mod", "scancode"}
            [] pge_type = PGE_MOUSEMOTION -> {"pos", "rel", "buttons"}
            [] pge_type \in {PGE_MOUSEBUTTONDOWN, PGE_MOUSEBUTTONUP} -> {"pos", "button"}
            [] pge_type = PGE_JOYAXISMOTION -> {"joy", "axis", "value"}
            [] pge_type = PGE_JOYBALLMOTION -> {"joy", "ball", "rel"}
            [] pge_type = PGE_JOYHATMOTION -> {"joy", "hat", "value"}
            [] pge_type \in {PGE_JOYBUTTONUP, PGE_JOYBUTTONDOWN} -> {"joy", "button"}
            [] pge_type = PGE_VIDEORESIZE -> {"size", "w", "h"}
            [] OTHER -> {})
    \cup (IF ev.type >= PGE_USEREVENT /\ ev.type < PGE_NUMEVENTS THEN {"code"} ELSE {})

\* dict_from_event: obj is the dictionary of the user's it returns (NULL when
\* it builds one, with the keys given), head and heap the registry after it
dict_from_event(head, hp, ev) ==
    LET r == IF ev.magic
             THEN user_event_getobject(head, hp, ev.data2)
             ELSE [obj |-> NULL, head |-> head, heap |-> hp, hunt |-> NULL,
                   nullread |-> FALSE]
    IN [obj |-> r.obj,
        keys |-> IF r.obj # NULL THEN {} ELSE GenericKeys(ev),
        head |-> r.head, heap |-> r.heap, nullread |-> r.nullread]

\* PyEvent_New (&event): the event object and the registry after the call
PyEvent_New(head, hp, ev) ==
    LET d == dict_from_event(head, hp, ev) IN
    [type |-> sdl_to_pg(ev), obj |-> d.obj, keys |-> d.keys,
     head |-> d.head, heap |-> d.heap, nullread |-> d.nullread]

\* an event object of type PGE_OTHEREVENT in the place of the PGE_NOEVENT one
NoEventObject_other ==
    [type |-> PGE_OTHEREVENT, obj |-> NULL, keys |-> {},
     src |-> NativeEvent(0, 0, FALSE, 0), expect |-> NULL]

\* PyEvent_New (NULL): the event of type PGE_NOEVENT with an empty dictionary
NoEventObject ==
    [type |-> PGE_NOEVENT, obj |-> NULL, keys |-> {},
     src |-> NativeEvent(0, 0, FALSE, 0), expect |-> NULL]

\* PyEvent_FillUserEvent: the native event built for e = [type, dict] once
\* e.dict is registered under userobj; the fields it does not set are left
\* out of account (no event type below PGE_NUMEVENTS reads them)
PyEvent_FillUserEvent(e, userobj) ==
    [type |-> e.type, event |-> 0, repeat |-> FALSE, timestamp |-> 0,
     magic |-> TRUE, data2 |-> userobj, orig |-> e.dict]

\* the event object as the caller sees it, with the native event it was made
\* from and the payload then registered under its handle
Facade(n, ev, reg) ==
    [type |-> n.type, obj |-> n.obj, keys |-> n.keys, src |-> ev,
     expect |-> IF ev.magic /\ ev.data2 \in Addr THEN reg[ev.data2] ELSE NULL]

\* the record of registered payloads after event ev was decoded
Forget(reg, ev) ==
    IF ev.magic /\ ev.data2 \in Addr THEN [reg EXCEPT ![ev.data2] = NULL] ELSE reg

(***************************************************************************)
(* QueueService: pump, poll, get, clear, peek, post.                       *)
(***************************************************************************)
\* the while loop of event_get: the event objects appended to the list, and
\* the queue, the registry and the record of registered payloads after it
RECURSIVE GetLoop(_, _, _, _, _)
GetLoop(q, head, hp, reg, mask) ==
    LET i == PG_PeepEvents(q, mask) IN
    IF i = 0
    THEN [events |-> <<>>, queue |-> q, head |-> head, heap |-> hp, reg |-> reg,
          nullread |-> FALSE]
    ELSE LET ev == q[i]
             n == PyEvent_New(head, hp, ev)
             rest == GetLoop(RemoveAt(q, i), n.head, n.heap, Forget(reg, ev), mask)
         IN IF n.nullread
            THEN [events |-> <<>>, queue |-> RemoveAt(q, i), head |-> head,
                  heap |-> hp, reg |-> reg, nullread |-> TRUE]
            ELSE [rest EXCEPT !.events = <<Facade(n, ev, reg)>> \o rest.events]

\* the while loop of event_clear: the queue after it
RECURSIVE ClearLoop(_, _)
ClearLoop(q, mask) ==
    LET i == PG_PeepEvents(q, mask) IN
    IF i = 0 THEN q ELSE ClearLoop(RemoveAt(q, i), mask)

\* what the SDL_Event local of event_peek can hold when PG_PeepEvents has
\* written nothing to it: zeroes, or what an earlier call left on the stack,
\* such as a posted event with any handle
UninitEvents ==
    {NativeEvent(0, 0, FALSE, 0)}
    \cup {[NativeEvent(PGE_USEREVENT, 0, FALSE, 0) EXCEPT !.magic = TRUE, !.data2 = h] :
            h \in Addr \cup {NULL}}

pygame_pump(arrivals) ==
    /\ ~fault
    /\ ~wait.gil
    /\
          queue' = SDL_PumpEvents(queue, disabled, arrivals)
    /\ last' = [NoCall EXCEPT !.op = "pump", !.ret = "ok"]
    /\ UNCHANGED <<user_event_objects, heap, disabled, repeat, fault, reg_of,
                   blockHistory>>
    /\ UNCHANGED wait

pygame_poll(arrivals) ==
    /\ ~fault
    /\ ~wait.gil
    /\
        LET q == SDL_PumpEvents(queue, disabled, arrivals)
            p == Py_PollEvent(q, repeat)
            n == PyEvent_New(user_event_objects, heap, p.event)
            call == [NoCall EXCEPT !.op = "poll",
                        !.seen = SubSeq(q, 1, Len(q) - Len(p.queue)),
                        !.vals = <<repeat.firsttime, repeat.timestamp>>]
        IN /\ queue' = p.queue
           /\ repeat' = p.repeat
           /\ IF p.rcode # 0
              THEN /\ user_event_objects' = n.head
                   /\ heap' = n.heap
                   /\ reg_of' = Forget(reg_of, p.event)
                   /\ fault' = n.nullread
                   /\ last' = [call EXCEPT
                          !.ret = IF n.nullread THEN "crash" ELSE "ok",
                          !.events = <<Facade(n, p.event, reg_of)>>]
              ELSE /\ last' = [call EXCEPT !.ret = "ok",
                                          !.events = <<NoEventObject>>]
                   /\ UNCHANGED <<user_event_objects, heap, reg_of, fault>>
    /\ UNCHANGED <<disabled, blockHistory>>
    /\ UNCHANGED wait

event_get(arg, arrivals) ==
    /\ ~fault
    /\ ~wait.gil
    /\
        LET q == SDL_PumpEvents(queue, disabled, arrivals)
            g == GetLoop(q, user_event_objects, heap, reg_of, MaskOf(arg))
        IN /\ queue' = g.queue
           /\ user_event_objects' = g.head
           /\ heap' = g.heap
           /\ reg_of' = g.reg
           /\ fault' = g.nullread
           /\ last' = [NoCall EXCEPT !.op = "get", !.kind = arg.kind,
                          !.types = arg.types,
                          !.ret = IF g.nullread THEN "crash" ELSE "ok",
                          !.events = g.events,
                          !.pos = Len(q) - Len(g.queue)]
    /\ UNCHANGED <<disabled, repeat, blockHistory>>
    /\ UNCHANGED wait

event_clear(arg, arrivals) ==
    /\ ~fault
    /\ ~wait.gil
    /\
          queue' = ClearLoop(SDL_PumpEvents(queue, disabled, arrivals), MaskOf(arg))
    /\ last' = [NoCall EXCEPT !.op = "clear", !.kind = arg.kind,
                              !.types = arg.types, !.ret = "ok"]
    /\ UNCHANGED <<user_event_objects, heap, disabled, repeat, fault, reg_of,
                   blockHistory>>
    /\ UNCHANGED wait

event_peek(arg, arrivals) ==
    /\ ~fault
    /\ ~wait.gil
    /\
        LET q == SDL_PumpEvents(queue, disabled, arrivals)
            result == PG_PeepEvents(q, MaskOf(arg))
            call == [NoCall EXCEPT !.op = "peek", !.kind = arg.kind,
                                   !.types = arg.types, !.pos = result]
        IN /\ queue' = q
           /\ IF arg.kind # "none"
              THEN /\ last' = [call EXCEPT !.ret = IF result # 0 THEN "true" ELSE "false"]
                   /\ UNCHANGED <<user_event_objects, heap, reg_of, fault>>
              ELSE \E event \in IF result # 0 THEN {q[result]} ELSE UninitEvents :
                     LET n == PyEvent_New(user_event_objects, heap, event) IN
                     IF n.nullread
                     THEN \* hunt->next = userobj->next through a NULL userobj
                          /\ fault' = TRUE
                          /\ last' = [call EXCEPT !.ret = "crash"]
                          /\ UNCHANGED <<user_event_objects, heap, reg_of>>
                     ELSE /\ user_event_objects' = n.head
                          /\ heap' = n.heap
                          /\ reg_of' = Forget(reg_of, event)
                          /\ last' = [call EXCEPT !.ret = "ok",
                                 !.events = <<Facade(n, event, reg_of)>>]
                          /\ UNCHANGED fault
    /\ UNCHANGED <<disabled, repeat, blockHistory>>
    /\ UNCHANGED wait

\* event_post of the event e = [type, dict], with PyMem_New failing (a = NULL)
\* or returning the free address a
event_post(e, a) ==
    /\ ~fault
    /\ ~wait.gil
    /\ a \in FreeAddrs \cup {NULL}
    /\ LET sdl_type == pg_to_sdl(e)
           isblocked == SDL_EventIgnored(disabled, sdl_type)
           call == [NoCall EXCEPT !.op = "post", !.types = <<e.type>>, !.obj = e.dict]
       IN
       IF isblocked
       THEN /\ last' = [call EXCEPT !.ret = "ok"]
            /\ UNCHANGED <<user_event_objects, heap, queue, reg_of>>
       ELSE IF a = NULL
            THEN \* PyEvent_FillUserEvent returns -1: user_event_addobject failed
                 /\ last' = [call EXCEPT !.ret = "nomem"]
                 /\ UNCHANGED <<user_event_objects, heap, queue, reg_of>>
            ELSE LET r == user_event_addobject(user_event_objects, heap, e.dict, a)
                     push == SDL_PushEvent(queue, PyEvent_FillUserEvent(e, a))
                 IN /\ user_event_objects' = r.head
                    /\ heap' = r.heap
                    /\ reg_of' = [reg_of EXCEPT ![a] = e.dict]
                    /\ queue' = push.queue
                    /\ last' = [call EXCEPT !.h = a,
                           !.ret = IF push.rc = 0 THEN "SDLError" ELSE "ok",
                           !.pushed = IF push.rc = 1 THEN 1 ELSE 0]
    /\ UNCHANGED <<disabled, repeat, fault, blockHistory>>
    /\ UNCHANGED wait

\* the events the application posts and the arguments it filters with
PostTypes == {PGE_KEYDOWN, PGE_USEREVENT}
PostEvents == [type : PostTypes, dict : Dicts]

\* the addresses PyMem_New hands out to event_post
PostAddrs == 1 .. MaxPostAddr

NoArg == [kind |-> "none", types |-> <<>>]

FilterArgs ==
    {NoArg,
     [kind |-> "int", types |-> <<PGE_KEYDOWN>>],
     [kind |-> "seq", types |-> <<PGE_KEYDOWN, PGE_VIDEORESIZE>>]}

QueueBlockArgs == {NoArg, [kind |-> "seq", types |-> <<PGE_KEYDOWN>>]}

\* the application posts, polls, peeks and blocks while the platform is quiet
PostNext ==
    \/ \E e \in PostEvents, a \in PostAddrs \cup {NULL} : event_post(e, a)
    \/ pygame_poll(<<>>)
    \/ event_peek(NoArg, <<>>)
    \/ \E arg \in QueueBlockArgs : set_blocked(arg)

PostSpec == RegInit /\ [][PostNext]_vars

\* the application reads the queue the platform fills
GetNext ==
    \/ \E arrivals \in Arrivals : pygame_pump(arrivals)
    \/ \E arrivals \in Arrivals : pygame_poll(arrivals)
    \/ \E arg \in FilterArgs, arrivals \in Arrivals : event_get(arg, arrivals)
    \/ \E arg \in FilterArgs, arrivals \in Arrivals : event_clear(arg, arrivals)
    \/ \E arg \in FilterArgs, arrivals \in Arrivals : event_peek(arg, arrivals)

GetSpec == RegInit /\ [][GetNext]_vars

(***************************************************************************)
(* KeyRepeatTimer: Py_EnableKeyRepeat, Py_GetKeyRepeat, and the key events *)
(* the filter of Py_PollEvent sees.                                        *)
(***************************************************************************)
\* KeyRepeat without the resets repeat.firsttime = 0; repeat.timestamp = 0
KeyRepeatAfterEnable_noreset(r, delay, interval) ==
    IF delay < 0 \/ interval < 0
    THEN [rc |-> -1, repeat |-> r]
    ELSE [rc |-> 0, repeat |-> [r EXCEPT !.delay = delay, !.interval = interval]]

\* Py_EnableKeyRepeat: the value returned and KeyRepeat after the call
KeyRepeatAfterEnable(r, delay, interval) ==
    IF delay < 0 \/ interval < 0
    THEN [rc |-> -1, repeat |-> r]
    ELSE [rc |-> 0,
          repeat |-> [delay |-> delay, interval |-> interval, firsttime |-> 0,
                      timestamp |-> 0]]

Py_EnableKeyRepeat(delay, interval) ==
    /\ ~fault
    /\ ~wait.gil
    /\ LET k == KeyRepeatAfterEnable(repeat, delay, interval) IN
       /\ repeat' = k.repeat
       /\ last' = [NoCall EXCEPT !.op = "EnableKeyRepeat",
                      !.ret = IF k.rc = 0 THEN "ok" ELSE "error",
                      !.vals = <<delay, interval>>]
    /\ UNCHANGED <<user_event_objects, heap, queue, disabled, fault, reg_of,
                   blockHistory>>
    /\ UNCHANGED wait

Py_GetKeyRepeat ==
    /\ ~fault
    /\ ~wait.gil
    /\ last' = [NoCall EXCEPT !.op = "GetKeyRepeat", !.ret = "ok",
                              !.vals = <<repeat.delay, repeat.interval>>]
    /\ UNCHANGED <<user_event_objects, heap, queue, disabled, repeat, fault,
                   reg_of, blockHistory>>
    /\ UNCHANGED wait

\* the delay and the interval the application configures, in milliseconds
KeyDelay == 500
KeyInterval == 100

\* the (delay, interval) pairs given to Py_EnableKeyRepeat
ConfigArgs ==
    {<<KeyDelay, KeyInterval>>, <<0, 0>>, <<0, KeyInterval>>,
     <<-1, KeyInterval>>, <<KeyDelay, -1>>}

\* the times at which keys go down or repeat
Stamps == {0, KeyInterval, KeyDelay - KeyInterval, KeyDelay, KeyDelay + KeyInterval}

Max(S) == CHOOSE x \in S : \A y \in S : y <= x

\* the latest time the queue q and KeyRepeat r hold: SDL stamps events with
\* SDL_GetTicks, so a new event is not older than it
LastStamp(q, r) == Max({r.timestamp} \cup {q[i].timestamp : i \in 1 .. Len(q)})

KeyEvent(rep, ts) == NativeEvent(SDL_KEYDOWN, 0, rep, ts)

\* what one SDL_PumpEvents can bring from the keyboard: nothing, a key press
\* or a key repeat
KeyArrivals ==
    {<<>>} \cup {<<KeyEvent(rep, ts)>> :
                   rep \in BOOLEAN,
                   ts \in {t \in Stamps :
                            /\ t >= LastStamp(queue, repeat)
                            /\ t >= LastStamp(<<wait.e>>, wait.r)}}

\* the application configures key repeat and polls the keyboard
KeyNext ==
    \/ \E a \in ConfigArgs : Py_EnableKeyRepeat(a[1], a[2])
    \/ Py_GetKeyRepeat
    \/ \E arrivals \in KeyArrivals : pygame_pump(arrivals)
    \/ \E arrivals \in KeyArrivals : pygame_poll(arrivals)

KeySpec == RegInit /\ [][KeyNext]_vars

(***************************************************************************)
(* pygame_wait and Py_WaitEvent, step by step: the thread enters with the  *)
(* GIL, releases it, blocks in SDL_WaitEvent, takes the GIL again and      *)
(* finishes.  The other calls are made by threads that hold the GIL for    *)
(* the whole call, so they run only while the waiting thread does not.     *)
(***************************************************************************)
\* Py_BEGIN_ALLOW_THREADS that keeps the GIL
AllowThreads_held(w) == [w EXCEPT !.pc = "blocked"]

\* Py_BEGIN_ALLOW_THREADS
AllowThreads(w) == [w EXCEPT !.pc = "blocked", !.gil = FALSE]

\* Py_END_ALLOW_THREADS
EndAllowThreads(w) == [w EXCEPT !.pc = "locked", !.gil = TRUE]

\* one turn of while (SDL_WaitEvent (e) == 0) { ... } with SDL_WaitEvent
\* returning native_rc and e holding event e: whether the loop goes round
\* again, and the locals r and rcode after the turn
WaitLoopTurn(r, e, native_rc) ==
    IF native_rc # 0
    THEN [again |-> FALSE, r |-> r, rcode |-> -1]
    ELSE LET b == KeyRepeatBody(e, r) IN
         IF b.skip
         THEN [again |-> TRUE, r |-> r, rcode |-> -1]
         ELSE [again |-> FALSE, r |-> b.repeat, rcode |-> 0]

\* what the SDL_Event local of pygame_wait can hold when SDL_WaitEvent failed
\* and wrote nothing to it
UninitWaitEvents ==
    {NativeEvent(0, 0, FALSE, 0), NativeEvent(SDL_KEYDOWN, 0, TRUE, 0),
     NativeEvent(SDL_KEYDOWN, 0, FALSE, 0)}

\* pygame_wait calls Py_WaitEvent: KeyRepeat r = repeat; int rcode = -1;
wait_enter ==
    /\ ~fault
    /\ wait.pc = "idle"
    /\ ~wait.gil
    /\ wait' = [NotWaiting EXCEPT !.pc = "entered", !.gil = TRUE, !.r = repeat]
    /\ last' = [NoCall EXCEPT !.op = "wait_enter"]
    /\ UNCHANGED <<user_event_objects, heap, queue, disabled, repeat, fault,
                   reg_of, blockHistory>>

wait_release ==
    /\ wait.pc = "entered"
    /\ wait' = AllowThreads(wait)
    /\ UNCHANGED <<user_event_objects, heap, queue, disabled, repeat, fault, last,
                   reg_of, blockHistory>>

\* SDL_WaitEvent returns: 1 with the event at the head of the pumped queue, or
\* 0 for an error, with the event local left as it was
wait_native(arrivals) ==
    /\ wait.pc = "blocked"
    /\ LET q == SDL_PumpEvents(queue, disabled, arrivals) IN
       \/ /\ q # <<>>
          /\ LET t == WaitLoopTurn(wait.r, Head(q), 1) IN
             wait' = [wait EXCEPT !.pc = "woken", !.e = Head(q), !.r = t.r,
                                  !.rcode = t.rcode]
          /\ queue' = Tail(q)
       \/ \E g \in UninitWaitEvents :
             LET t == WaitLoopTurn(wait.r, g, 0) IN
             /\ ~t.again
             /\ wait' = [wait EXCEPT !.pc = "woken", !.e = g, !.r = t.r,
                                     !.rcode = t.rcode]
             /\ queue' = q
    /\ UNCHANGED <<user_event_objects, heap, disabled, repeat, fault, last,
                   reg_of, blockHistory>>

wait_acquire ==
    /\ wait.pc = "woken"
    /\ wait' = EndAllowThreads(wait)
    /\ UNCHANGED <<user_event_objects, heap, queue, disabled, repeat, fault, last,
                   reg_of, blockHistory>>

\* the end of Py_WaitEvent (repeat.firsttime = r.firsttime; repeat.timestamp =
\* r.timestamp) and the rest of pygame_wait
wait_finish ==
    /\ wait.pc = "locked"
    /\ repeat' = [repeat EXCEPT !.firsttime = wait.r.firsttime,
                                !.timestamp = wait.r.timestamp]
    /\ LET status == wait.rcode
           n == PyEvent_New(user_event_objects, heap, wait.e)
           call == [NoCall EXCEPT !.op = "wait", !.seen = <<wait.e>>,
                       !.vals = <<wait.r.firsttime, wait.r.timestamp>>]
       IN IF status = 0
          THEN /\ last' = [call EXCEPT !.ret = "SDLError"]
               /\ UNCHANGED <<user_event_objects, heap, reg_of, fault>>
          ELSE /\ user_event_objects' = n.head
               /\ heap' = n.heap
               /\ reg_of' = Forget(reg_of, wait.e)
               /\ fault' = n.nullread
               /\ last' = [call EXCEPT
                      !.ret = IF n.nullread THEN "crash" ELSE "ok",
                      !.events = <<Facade(n, wait.e, reg_of)>>]
    /\ wait' = NotWaiting
    /\ UNCHANGED <<queue, disabled, blockHistory>>

\* what SDL_WaitEvent can find arrived: nothing, a key press or a key repeat
WaitArrivals ==
    {a \in KeyArrivals : \A i \in 1 .. Len(a) : a[i].timestamp \in {0, KeyDelay}}

\* the calls the other thread makes
WaitConfigArgs == {<<KeyDelay, KeyInterval>>, <<0, 0>>}
WaitPostEvents == {[type |-> PGE_USEREVENT, dict |-> 1]}

\* one thread waits while another configures key repeat and posts
WaitNext ==
    \/ wait_enter
    \/ wait_release
    \/ \E arrivals \in WaitArrivals : wait_native(arrivals)
    \/ wait_acquire
    \/ wait_finish
    \/ \E a \in WaitConfigArgs : Py_EnableKeyRepeat(a[1], a[2])
    \/ \E e \in WaitPostEvents, a \in PostAddrs \cup {NULL} : event_post(e, a)

WaitSpec == RegInit /\ [][WaitNext]_vars

(***************************************************************************)
(* All the handlers together: one thread waits while the others poll,      *)
(* pump, read, post, block and configure key repeat.                       *)
(***************************************************************************)
\* the type the other threads block and allow
SharedBlockArgs == {[kind |-> "int", types |-> <<PGE_KEYDOWN>>]}

\* what the platform brings while the threads run: nothing or a key press
\* at time KeyDelay
SharedArrivals ==
    {a \in WaitArrivals :
        \A i \in 1 .. Len(a) : ~a[i].repeat /\ a[i].timestamp = KeyDelay}

\* the address PyMem_New hands out to the posts of this specification
SharedPostAddrs == {1}

\* the other threads enable key repeat
SharedConfigArgs == {<<KeyDelay, KeyInterval>>}

SharedNext ==
    \/ wait_enter
    \/ wait_release
    \/ \E arrivals \in SharedArrivals : wait_native(arrivals)
    \/ wait_acquire
    \/ wait_finish
    \/ \E a \in SharedConfigArgs : Py_EnableKeyRepeat(a[1], a[2])
    \/ \E arrivals \in SharedArrivals : pygame_poll(arrivals)
    \/ pygame_pump(<<>>)
    \/ event_get(NoArg, <<>>)
    \/ event_clear(NoArg, <<>>)
    \/ event_peek(NoArg, <<>>)
    \/ \E e \in WaitPostEvents, a \in SharedPostAddrs : event_post(e, a)
    \/ \E arg \in SharedBlockArgs : set_blocked(arg)
    \/ \E arg \in SharedBlockArgs : set_allowed(arg)

SharedSpec == RegInit /\ [][SharedNext]_vars

(***************************************************************************)
(* The type translation on its own: pg_type_to_sdl followed by sdl_to_pg.  *)
(***************************************************************************)
\* the window sub-events a native window event can carry in the model:
\* SDL_WINDOWEVENT_NONE and the ones declared above
WindowSubEvents ==
    {0, SDL_WINDOWEVENT_EXPOSED, SDL_WINDOWEVENT_MOVED, SDL_WINDOWEVENT_RESIZED}
        \cup ActiveSubEvents

\* the pygame type numbers: 0 .. PGE_NUMEVENTS - 1
PygameTypes == 0 .. PGE_NUMEVENTS - 1

\* pg_type_to_sdl (pge_type), then sdl_to_pg of a native event of the type it
\* returned, whose window sub-event field holds sub
translate(pge_type, sub) ==
    /\ ~fault
    /\ ~wait.gil
    /\ LET type == pg_type_to_sdl(pge_type)
           e == NativeEvent(type, sub, FALSE, 0) IN
       last' = [NoCall EXCEPT !.op = "translate",
                              !.types = <<pge_type>>,
                              !.vals = <<type, sub>>,
                              !.pos = sdl_to_pg(e)]
    /\ UNCHANGED <<user_event_objects, heap, queue, disabled, repeat, fault,
                   reg_of, last_named, bad_call_seen, wait>>

\* the dictionaries DictSdl2Type tells apart
NumAttrDicts == 7

\* pg_to_sdl of an event of type PGE_OTHEREVENT whose dictionary is d
other_code(d) ==
    /\ ~fault
    /\ ~wait.gil
    /\ last' = [NoCall EXCEPT !.op = "other_code",
                              !.obj = d,
                              !.pos = pg_to_sdl([type |-> PGE_OTHEREVENT, dict |-> d]),
                              !.ret = IF get_sdl_event_code_raised(d)
                                      THEN "error set" ELSE "ok"]
    /\ UNCHANGED <<user_event_objects, heap, queue, disabled, repeat, fault,
                   reg_of, last_named, bad_call_seen, wait>>

TransNext ==
    \/ \E pge_type \in PygameTypes, sub \in WindowSubEvents :
          translate(pge_type, sub)
    \/ \E d \in 1 .. NumAttrDicts : other_code(d)

TransSpec == RegInit /\ [][TransNext]_vars

(***************************************************************************)
(* Properties of the registry.                                             *)
(***************************************************************************)
\* whether handle h holds a payload registered and not yet retrieved
Registered(h) == h \in Addr /\ reg_of[h] # NULL

\* how many times x occurs in sequence s
Count(s, x) == Cardinality({i \in 1 .. Len(s) : s[i] = x})

\* C1: retrieving a handle that register returned and that was not retrieved
\* since returns the payload registered under it and removes that node only:
\* the list then holds exactly the other registered handles, each once, each
\* with its own payload, wherever in the list the node was.
RetrieveReturnsRegistered ==
    ~fault =>
        /\ (last.op = "getobject" /\ last.expect # NULL) =>
               /\ last.obj = last.expect
               /\ last.h \notin SeqSet(RegistryList)
        /\ SeqSet(RegistryList) = {a \in Addr : reg_of[a] # NULL}
        /\ Len(RegistryList) = Cardinality(SeqSet(RegistryList))
        /\ \A a \in SeqSet(RegistryList) : heap[a].object = reg_of[a]

\* C1 witness: a registered handle was retrieved from the middle of a list of
\* three nodes, and the two others are still in the list
RetrievedFromMiddle ==
    /\ last.op = "getobject"
    /\ last.expect # NULL
    /\ last.pos = 2
    /\ ~fault
    /\ Len(RegistryList) = 2

\* C2: retrieve with a handle that is not in the list (never registered,
\* already retrieved, NULL) returns absent and leaves the list as it was.
RetrieveUnknownIsAbsent ==
    [][(last'.op = "getobject" /\ ~Registered(last'.h)) =>
          /\ last'.ret = "absent"
          /\ ~fault'
          /\ user_event_objects' = user_event_objects
          /\ heap' = heap]_vars

\* C3: user_event_cleanup leaves the list empty and no node allocated, and
\* releases each payload once per node that was still registered (so not the
\* payloads of nodes retrieved before).
CleanupReleasesEachOnce ==
    [][last'.op = "cleanup" =>
          /\ user_event_objects' = NULL
          /\ \A a \in Addr : ~heap'[a].alloc
          /\ \A p \in Dicts :
                Count(last'.released, p) = Cardinality({a \in Addr : reg_of[a] = p})]_vars

\* C3 witness: a cleanup that released two payloads after a retrieval took
\* a third node out of the list
CleanupAfterRetrieve ==
    /\ last.op = "cleanup"
    /\ Len(last.released) = 2
    /\ user_event_objects = NULL

(***************************************************************************)
(* Properties of the block flags.                                          *)
(***************************************************************************)
\* what get_blocked(T) answers for one in-range type T
IsBlocked(T) == get_blocked_result([kind |-> "int", types |-> <<T>>], disabled).isblocked

LogicalTypes == 0 .. PGE_NUMEVENTS - 1

\* C6: as long as every set_allowed/set_blocked call had in-range types,
\* get_blocked(T) is true iff the last call naming T was set_blocked (a type
\* no call named is in the state it started in, so a call changes only the
\* types it names), and get_blocked of a sequence is true iff one of its
\* types is blocked.
BlockedIffLastNamedBlocked ==
    ~bad_call_seen =>
        /\ \A T \in LogicalTypes : IsBlocked(T) <=> (last_named[T] = "blocked")
        /\ (last.op = "get_blocked" /\ last.ret # "ValueError") =>
               ((last.ret = "true") <=>
                    \E i \in 1 .. Len(last.types) : last_named[last.types[i]] = "blocked")

\* C6 witness: get_blocked of a two-type sequence answered true with exactly
\* one of the two blocked, after that type was blocked and the other allowed
BlockedSequenceQueried ==
    /\ ~bad_call_seen
    /\ last.op = "get_blocked"
    /\ last.kind = "seq"
    /\ Len(last.types) = 2
    /\ last.ret = "true"
    /\ last_named[last.types[1]] = "allowed"
    /\ last_named[last.types[2]] = "blocked"

\* C8: a set_allowed, set_blocked or get_blocked call that fails on an
\* out-of-range type leaves every block flag as it was before the call.
FailedBlockCallChangesNothing ==
    [][(last'.op \in {"set_allowed", "set_blocked", "get_blocked"}
          /\ last'.ret = "ValueError") => disabled' = disabled]_vars

\* C7: set_blocked(None), and set_allowed(None) likewise, blocks everything:
\* after the call get_blocked(T) is true for every type T in
\* [0, PGE_NUMEVENTS).
NoneBlocksEveryType ==
    (last.op \in {"set_blocked", "set_allowed"} /\ last.kind = "none") =>
        \A T \in LogicalTypes : IsBlocked(T)

(***************************************************************************)
(* Properties of the queue service.                                        *)
(***************************************************************************)
\* C4: an event object decoded from a posted event whose handle was found in
\* the registry carries the dictionary the event was posted with, and the
\* node of that handle is no longer in the registry.
PostedEventKeepsItsDict ==
    last.op \in {"poll", "get", "peek"} =>
        \A i \in 1 .. Len(last.events) :
            LET f == last.events[i] IN
            (f.src.magic /\ f.src.orig # NULL /\ f.obj # NULL) =>
                /\ f.obj = f.src.orig
                /\ f.src.data2 \notin SeqSet(RegistryList)

\* C5: once set_blocked([T]) was the last block call naming T, event_post of
\* an event of type T does not raise, pushes no native event and registers
\* no payload.
BlockedPostIsNoOp ==
    [][(last'.op = "post" /\ last_named[last'.types[1]] = "blocked"
          /\ last'.ret # "nomem") =>
          /\ last'.ret = "ok"
          /\ queue' = queue
          /\ user_event_objects' = user_event_objects
          /\ heap' = heap]_vars

\* C9: event_get with a type or a sequence of types returns no event whose
\* pygame type, as sdl_to_pg computes it for the event returned, is not one
\* of the types given; window events included.
GetReturnsOnlyTypesAsked ==
    (last.op = "get" /\ last.kind # "none") =>
        \A i \in 1 .. Len(last.events) :
            sdl_to_pg(last.events[i].src) \in SeqSet(last.types)

\* C10: after event_get or event_clear no event of a type asked for is left
\* in the queue, and after a call without argument the queue is empty;
\* event_get returns one event object per native event it removed.
GetAndClearLeaveNoMatch ==
    [][last'.op \in {"get", "clear"} =>
          /\ IF last'.kind = "none"
             THEN queue' = <<>>
             ELSE \A i \in 1 .. Len(queue') :
                     sdl_to_pg(queue'[i]) \notin SeqSet(last'.types)
          /\ last'.op = "get" => Len(last'.events) = last'.pos]_vars

\* C11: event_peek removes no event from the queue; without argument it
\* returns the event at the head of the queue, or the PGE_NOEVENT event with
\* an empty dictionary when the queue is empty; with a type or a sequence of
\* types it answers true iff an event of one of these types is queued.
PeekLeavesQueueAndAnswers ==
    [][last'.op = "peek" =>
          /\ Len(queue') >= Len(queue)
          /\ SubSeq(queue', 1, Len(queue)) = queue
          /\ (last'.kind = "none" /\ queue' = <<>>) =>
                 (last'.ret = "ok" /\ last'.events = <<NoEventObject>>)
          /\ (last'.kind = "none" /\ queue' # <<>>) =>
                 (Len(last'.events) = 1 /\ last'.events[1].src = queue'[1])
          /\ last'.kind # "none" =>
                 ((last'.ret = "true") <=>
                      \E i \in 1 .. Len(queue') :
                          sdl_to_pg(queue'[i]) \in SeqSet(last'.types))]_vars

(***************************************************************************)
(* Properties of poll and of the key repeat timer.                         *)
(***************************************************************************)
\* whether the poll recorded in l dropped the i-th native event it took
PollDropped(l, i) == i < Len(l.seen) \/ l.events[1].src # l.seen[i]

\* whether every native event the poll recorded in l took is a key repeat
OnlyRepeatsSeen(l) ==
    /\ l.seen # <<>>
    /\ \A i \in 1 .. Len(l.seen) : l.seen[i].type = SDL_KEYDOWN /\ l.seen[i].repeat

RepeatEnabled(r) == r.delay > 0 \/ r.interval > 0

\* C12: pygame_poll on a queue that is empty after the pump returns the
\* PGE_NOEVENT event without raising and leaves the queue, the registry, the
\* block flags and KeyRepeat as they were, however often it is called.
PollOnEmptyIsNoOp ==
    [][(last'.op = "poll" /\ last'.seen = <<>>) =>
          /\ last'.ret = "ok"
          /\ last'.events = <<[type |-> PGE_NOEVENT, obj |-> NULL, keys |-> {},
                               src |-> NativeEvent(0, 0, FALSE, 0), expect |-> NULL]>>
          /\ queue = <<>>
          /\ UNCHANGED <<queue, user_event_objects, heap, disabled, repeat>>]_vars

\* C12 witness: a poll found the queue empty while key repeat was enabled and
\* a first repeat was pending, and returned the PGE_NOEVENT event
PolledEmptyWithRepeatPending ==
    /\ last.op = "poll"
    /\ last.seen = <<>>
    /\ Len(last.events) = 1
    /\ last.events[1].type = PGE_NOEVENT
    /\ repeat.delay = KeyDelay
    /\ repeat.firsttime = 1
    /\ repeat.timestamp > 0

\* C13: with key repeat enabled and a first repeat pending, a repeat keydown
\* is dropped iff its timestamp less the saved timestamp is below the delay;
\* one that is let through clears firsttime and saves its timestamp.
FirstRepeatWaitsForDelay ==
    [][(last'.op = "poll" /\ RepeatEnabled(repeat) /\ repeat.firsttime = 1
          /\ OnlyRepeatsSeen(last')) =>
          /\ \A i \in 1 .. Len(last'.seen) :
                PollDropped(last', i) <=>
                    (last'.seen[i].timestamp - repeat.timestamp < repeat.delay)
          /\ ~PollDropped(last', Len(last'.seen)) =>
                repeat' = [repeat EXCEPT !.firsttime = 0,
                              !.timestamp = last'.seen[Len(last'.seen)].timestamp]]_vars

\* C14: with key repeat enabled and no first repeat pending, a repeat keydown
\* is dropped iff its timestamp less the saved timestamp is below the
\* interval; one that is let through saves its timestamp, one that is
\* dropped leaves KeyRepeat as it was.
LaterRepeatWaitsForInterval ==
    [][(last'.op = "poll" /\ RepeatEnabled(repeat) /\ repeat.firsttime = 0
          /\ OnlyRepeatsSeen(last')) =>
          /\ \A i \in 1 .. Len(last'.seen) :
                PollDropped(last', i) <=>
                    (last'.seen[i].timestamp - repeat.timestamp < repeat.interval)
          /\ repeat' = IF PollDropped(last', Len(last'.seen))
                       THEN repeat
                       ELSE [repeat EXCEPT
                               !.timestamp = last'.seen[Len(last'.seen)].timestamp]]_vars

\* C14 witness: with no first repeat pending, a poll dropped a repeat that
\* came before the interval was over and returned the next one, which came
\* exactly one interval after the saved timestamp
RepeatReturnedAtInterval ==
    /\ last.op = "poll"
    /\ last.vals[1] = 0
    /\ repeat.interval = KeyInterval
    /\ OnlyRepeatsSeen(last)
    /\ Len(last.seen) = 2
    /\ ~PollDropped(last, 2)
    /\ last.seen[2].timestamp - last.vals[2] = KeyInterval
    /\ repeat.timestamp = last.seen[2].timestamp

\* C15: with key repeat disabled (delay and interval both 0) pygame_poll
\* drops no event: the event it takes from the queue is the one it returns.
DisabledRepeatDropsNothing ==
    [][(last'.op = "poll" /\ repeat.delay = 0 /\ repeat.interval = 0
          /\ last'.seen # <<>>) =>
          (Len(last'.seen) = 1 /\ ~PollDropped(last', 1))]_vars

\* C16: Py_EnableKeyRepeat with a negative delay or interval fails and leaves
\* KeyRepeat as it was; otherwise it stores the two and sets firsttime and
\* timestamp to 0.  Py_GetKeyRepeat returns the delay and the interval
\* stored, which no other call changes.
EnableKeyRepeatStoresOrFails ==
    [][/\ last'.op = "EnableKeyRepeat" =>
             IF last'.vals[1] < 0 \/ last'.vals[2] < 0
             THEN last'.ret = "error" /\ repeat' = repeat
             ELSE /\ last'.ret = "ok"
                  /\ repeat' = [delay |-> last'.vals[1], interval |-> last'.vals[2],
                                firsttime |-> 0, timestamp |-> 0]
       /\ last'.op = "GetKeyRepeat" =>
             (last'.vals = <<repeat.delay, repeat.interval>> /\ repeat' = repeat)
       /\ last'.op # "EnableKeyRepeat" =>
             (repeat'.delay = repeat.delay /\ repeat'.interval = repeat.interval)]_vars

\* C16 witness: Py_EnableKeyRepeat failed on a negative value while a delay
\* and an interval were stored, a first repeat pending and a timestamp saved
EnableFailedWithRepeatPending ==
    /\ last.op = "EnableKeyRepeat"
    /\ last.ret = "error"
    /\ repeat.delay = KeyDelay
    /\ repeat.interval = KeyInterval
    /\ repeat.firsttime = 1
    /\ repeat.timestamp > 0

(***************************************************************************)
(* Properties of pygame_wait.                                              *)
(***************************************************************************)
\* C17: the thread in pygame_wait does not hold the GIL while it is blocked
\* in SDL_WaitEvent, so calls of other threads run meanwhile, and holds it
\* from Py_END_ALLOW_THREADS to its return; what it does without the GIL
\* neither writes KeyRepeat or the registry nor depends on anything but its
\* locals and the event, and calls of other threads are made only while it
\* does not hold the GIL.
WaitHoldsGilOutsideBlockOnly ==
    [][/\ wait.pc \in {"blocked", "woken"} => ~wait.gil
       /\ wait.pc \in {"entered", "locked"} => wait.gil
       /\ (wait.pc = "locked" /\ wait'.pc = "idle") => wait.gil
       /\ (wait'.pc # wait.pc /\ ~wait.gil /\ wait.pc # "idle") =>
             /\ UNCHANGED <<repeat, user_event_objects, heap>>
             /\ wait'.pc = "woken" =>
                   \E native_rc \in {0, 1} :
                       LET t == WaitLoopTurn(wait.r, wait'.e, native_rc) IN
                       wait'.r = t.r /\ wait'.rcode = t.rcode
       /\ (wait'.pc = wait.pc /\ wait'.pc # "idle") => (~wait.gil /\ wait' = wait)]_vars

\* C17 witness: another thread posted an event while the thread in
\* pygame_wait was blocked without the GIL
PostedDuringWait ==
    /\ wait.pc = "blocked"
    /\ ~wait.gil
    /\ last.op = "post"
    /\ last.pushed = 1

\* C18: pygame_wait lets through exactly the events pygame_poll would: the
\* event SDL_WaitEvent delivered is one the key repeat filter does not drop
\* for the KeyRepeat the wait started with, and firsttime and timestamp are
\* updated as the filter updates them.
WaitFiltersLikePoll ==
    [][(wait.pc = "blocked" /\ wait'.pc = "woken" /\ wait'.rcode # 0) =>
          LET b == KeyRepeatBody(wait'.e, wait.r) IN
          ~b.skip /\ wait'.r = b.repeat]_vars

\* C19: event_post of an event whose type is not blocked raises SDLError
\* whenever SDL_PushEvent did not queue the event, and returns normally
\* whenever it did.
PostRaisesIffPushFailed ==
    (last.op = "post" /\ last.h # NULL) =>
        ((last.ret = "SDLError") <=> (last.pushed = 0))

(***************************************************************************)
(* Properties of the type translation.                                     *)
(***************************************************************************)
\* the built-in pygame types pg_type_to_sdl gives a native type
BuiltinWithNative ==
    {T \in PygameTypes : T < PGE_USEREVENT /\ pg_type_to_sdl(T) # PGE_NON_SDL_EVENT}

\* C20: for every built-in pygame type T with a native equivalent, sdl_to_pg
\* of a native event whose type is pg_type_to_sdl(T) is T.
RoundTripGivesTheType ==
    (last.op = "translate" /\ last.types[1] \in BuiltinWithNative) =>
        last.pos = last.types[1]

\* the pygame types of the user band: PGE_USEREVENT .. PGE_NUMEVENTS - 1
UserTypes == {T \in PygameTypes : T >= PGE_USEREVENT}

\* C21: after module initialisation, for every user type T = PGE_USEREVENT + k
\* pg_type_to_sdl(T) is a native code of the registered range
\* [first_user_event, last_user_event], no other user type has the same
\* native code, and sdl_to_pg of an event of that code is T.
UserBandIsBijective ==
    (last.op = "translate" /\ last.types[1] \in UserTypes) =>
        /\ UintGeq(last.vals[1], first_user_event)
        /\ UintLeq(last.vals[1], last_user_event)
        /\ \A T \in UserTypes \ {last.types[1]} : pg_type_to_sdl(T) # last.vals[1]
        /\ last.pos = last.types[1]

\* C24: the registered native range is as wide as the user band, so an event
\* whose native code lies in [first_user_event, last_user_event] translates
\* to a type of [PGE_USEREVENT, PGE_NUMEVENTS), and no translation leaves
\* the pygame types.
RegisteredRangeHasBandWidth ==
    (last.op = "translate") =>
        /\ last_user_event - first_user_event + 1 = PGE_NUMEVENTS - PGE_USEREVENT
        /\ (UintGeq(last.vals[1], first_user_event)
              /\ UintLeq(last.vals[1], last_user_event)) => last.pos \in UserTypes
        /\ last.pos \in PygameTypes

\* the attribute holds an integer that is a native code up to last_user_event
Sdl2TypeInRange(sdl_type) ==
    /\ sdl_type.present
    /\ sdl_type.numeric
    /\ sdl_type.index
    /\ sdl_type.value.hi = 0
    /\ UintLeq(sdl_type.value.lo, last_user_event)

\* C22: pg_to_sdl of an event of type PGE_OTHEREVENT returns the code stored
\* under "sdl2_type" when that attribute is present, numeric and in range,
\* and last_user_event + 1 otherwise, and it never fails.
OtherCodeIsStoredOrSynthetic ==
    (last.op = "other_code") =>
        LET sdl_type == DictSdl2Type(last.obj) IN
        /\ last.ret = "ok"
        /\ last.pos = IF Sdl2TypeInRange(sdl_type)
                      THEN sdl_type.value.lo
                      ELSE last_user_event + 1

(***************************************************************************)
(* Properties of the handlers together.                                    *)
(***************************************************************************)
\* whether the native events in l hold a key press or repeat
SawKeyDown(l) == \E i \in 1 .. Len(l.seen) : l.seen[i].type = SDL_KEYDOWN

\* C23: delay and interval change only in Py_EnableKeyRepeat; firsttime and
\* timestamp change only in Py_EnableKeyRepeat and in a poll or a wait that
\* took a keydown; the block flags change only in set_allowed and
\* set_blocked; so pump, get, peek, clear and post change none of them.
RepeatAndBlockFlagsChangeOnlyInTheirOps ==
    [][/\ (repeat'.delay # repeat.delay \/ repeat'.interval # repeat.interval) =>
            last'.op = "EnableKeyRepeat"
       /\ (repeat'.firsttime # repeat.firsttime
             \/ repeat'.timestamp # repeat.timestamp) =>
            \/ last'.op = "EnableKeyRepeat"
            \/ last'.op \in {"poll", "wait"} /\ SawKeyDown(last')
       /\ (disabled' # disabled) => last'.op \in {"set_blocked", "set_allowed"}
       /\ (wait'.pc \notin {wait.pc, "idle"}) => UNCHANGED <<repeat, disabled>>]_vars

\* C30: what the other threads wrote to KeyRepeat while a wait was blocked
\* is not lost: when the wait returns, firsttime and timestamp are what
\* those threads left, changed only by the events the wait itself took; so
\* a wait that was given an event other than a keydown leaves them as they
\* are.
WaitKeepsUpdatesOfOtherThreads ==
    [][(wait.pc = "locked" /\ wait'.pc = "idle" /\ wait.rcode # 0
          /\ wait.e.type # SDL_KEYDOWN) =>
          /\ repeat'.firsttime = repeat.firsttime
          /\ repeat'.timestamp = repeat.timestamp]_vars

(***************************************************************************)
(* Properties of the loop of Py_PollEvent.                                 *)
(***************************************************************************)
\* whether native event e is a key repeat
IsKeyRepeat(e) == e.type = SDL_KEYDOWN /\ e.repeat

\* C25: pygame_poll ends after at most one turn for each queued event: it
\* takes events from the front of the queue, drops only key repeats its
\* filter suppresses, and returns either the first event the filter does not
\* suppress, the events behind it staying queued in their order, or, when it
\* dropped every event, the PGE_NOEVENT event with the queue left empty.
PollTakesFromTheFrontUntilOneIsKept ==
    [][(last'.op = "poll") =>
          \E arrivals \in KeyArrivals :
             LET q == SDL_PumpEvents(queue, disabled, arrivals)
                 seen == last'.seen
                 n == Len(seen)
                 Dropped(i) == IsKeyRepeat(seen[i]) /\ KeyRepeatBody(seen[i], repeat).skip
             IN /\ n <= Len(q)
                /\ seen = SubSeq(q, 1, n)
                /\ queue' = SubSeq(q, n + 1, Len(q))
                /\ \A i \in 1 .. n - 1 : Dropped(i)
                /\ IF last'.events[1].type = PGE_NOEVENT
                   THEN queue' = <<>> /\ (n > 0 => Dropped(n))
                   ELSE /\ n > 0
                        /\ ~KeyRepeatBody(seen[n], repeat).skip
                        /\ last'.events[1].src = seen[n]]_vars

\* a poll dropped a key repeat and returned the event behind it
PollDroppedOneAndReturnedNext ==
    /\ last.op = "poll"
    /\ Len(last.seen) = 2
    /\ IsKeyRepeat(last.seen[1])
    /\ last.events[1].type # PGE_NOEVENT
    /\ last.events[1].src = last.seen[2]

\* C26: pygame_poll and pygame_wait never drop an event that is no key
\* repeat; with key repeat enabled a key press they return sets firsttime
\* and sets timestamp to its timestamp; with key repeat disabled a key press
\* leaves firsttime clear.
KeyPressIsKeptAndTracked ==
    [][/\ (last'.op = "poll") =>
            \A i \in 1 .. Len(last'.seen) :
               ~IsKeyRepeat(last'.seen[i]) =>
                  /\ last'.events[1].src = last'.seen[i]
                  /\ last'.seen[i].type = SDL_KEYDOWN =>
                        IF RepeatEnabled(repeat)
                        THEN /\ repeat'.firsttime = 1
                             /\ repeat'.timestamp = last'.seen[i].timestamp
                        ELSE repeat'.firsttime = 0
       /\ (wait.pc = "locked" /\ wait'.pc = "idle" /\ wait.rcode # 0
             /\ ~IsKeyRepeat(wait.e)) =>
            /\ last'.ret # "SDLError"
            /\ last'.events[1].src = wait.e
            /\ wait.e.type = SDL_KEYDOWN =>
                  IF RepeatEnabled(repeat)
                  THEN /\ repeat'.firsttime = 1
                       /\ repeat'.timestamp = wait.e.timestamp
                  ELSE repeat'.firsttime = 0]_vars

(***************************************************************************)
(* Properties of posted events across the queue.                           *)
(***************************************************************************)
\* the handles carried by the records event_post pushed that are queued
QueuedHandles == {queue[i].data2 : i \in {j \in 1 .. Len(queue) : queue[j].magic}}

\* C27: in every state the handles of the registry are the handles carried
\* by the posted records in the native queue.
RegistryMatchesQueuedRecords ==
    SeqSet(RegistryList) = QueuedHandles

\* whether the call recorded in l is an event_peek without argument that
\* returned event_post's record ev with the dictionary it was posted with
PeekReturnedPosted(l, ev) ==
    /\ l.op = "peek"
    /\ l.kind = "none"
    /\ l.ret = "ok"
    /\ ev.magic
    /\ l.events[1].src = ev
    /\ l.events[1].obj = ev.orig

\* C28: event_peek without argument does not use up a posted event: when it
\* returned the posted event at the head of the queue with its dictionary,
\* the pygame_poll or event_peek that follows returns that event with the
\* same dictionary.
PeekThenPollReturnSameEvent ==
    [][(queue # <<>> /\ PeekReturnedPosted(last, Head(queue))
          /\ last'.op \in {"poll", "peek"}) =>
          /\ last'.ret = "ok"
          /\ last'.events[1].src = Head(queue)
          /\ last'.events[1].obj = Head(queue).orig]_vars

\* C29: the type of a posted event survives the queue: event_post pushes the
\* record under the native code whose block flag it queried, pg_to_sdl of
\* the event, that record translates back to the type posted, and the
\* pygame_poll that takes it returns an event of that type.
PostedTypeSurvivesTheQueue ==
    [][/\ (last'.op = "post" /\ last'.pushed = 1) =>
            LET ev == queue'[Len(queue')] IN
            /\ ev.type = pg_to_sdl([type |-> last'.types[1], dict |-> last'.obj])
            /\ sdl_to_pg(ev) = last'.types[1]
       /\ (last.op = "post" /\ last.pushed = 1 /\ Len(queue) = 1
             /\ last'.op = "poll") =>
            last'.events[1].type = last.types[1]]_vars

(***************************************************************************)
(* Properties of the order of event_get.                                   *)
(***************************************************************************)
\* whether s can be had from q by leaving events out, the order kept
RECURSIVE IsSubSeq(_, _)
IsSubSeq(s, q) ==
    IF s = <<>> THEN TRUE
    ELSE IF q = <<>> THEN FALSE
    ELSE IF Head(s) = Head(q) THEN IsSubSeq(Tail(s), Tail(q))
    ELSE IsSubSeq(s, Tail(q))

\* C31: event_get without argument returns the events it removes in the
\* order in which they were queued, whatever their types.
GetReturnsInQueueOrder ==
    [][(last'.op = "get" /\ last'.kind = "none" /\ last'.ret = "ok") =>
          \E arrivals \in Arrivals :
             LET q == SDL_PumpEvents(queue, disabled, arrivals) IN
             /\ Len(queue') = Len(q) - Len(last'.events)
             /\ IsSubSeq([i \in 1 .. Len(last'.events) |-> last'.events[i].src], q)]_vars

====
